---- MODULE Spec2Model ----
(***************************************************************************)
(* A model of the resumable batch engine of ap_reboot_manager.py:          *)
(* import_and_reboot (the batch loop, its checkpoint and resume protocol,  *)
(* the live status cache and the status gate), reboot_ap_with_retry,       *)
(* countdown_with_dots, load_checkpoint / save_checkpoint and the          *)
(* two-stage signal_handler.  One behaviour is a chain of processes run    *)
(* over one CSV task list with one checkpoint file.                        *)
(***************************************************************************)
EXTENDS Integers, Sequences, FiniteSets, TLC

(* ---------------------------------------------------------------- bounds *)
MaxTasks == 2
MaxGateTasks == 2
MaxRuns == 2
MaxDelay == 2
MaxBatch == 2
MaxSaveFaults == 1
MaxRequests == 102
MaxPaceTasks == 3

(* ------------------------------------------------------ program constants *)
max_retries == 3
LargeBatchLimit == 100
ConfirmLimit == 1000
CachePageCap == 10
page_size == 100
SafetyLimit == 100

VARIABLES
    tasks,               \* aps_to_process: the rows of the CSV file
    opts,                \* the options of import_and_reboot (fixed for a chain)
    env,                 \* what the surroundings may still do (faults, restarts)
    pc,                  \* where the process is
    i,                   \* the index of the batch loop (0-based)
    attempt,             \* the attempt index of reboot_ap_with_retry
    tick,                \* the loop variable of countdown_with_dots
    shutdown_requested,  \* the global flag of the process
    stats,               \* the stats dictionary of import_and_reboot
    all_aps_cache,       \* serial number -> cached AP record
    ckpt,                \* the checkpoint file
    resume,              \* the resume argument of the current run
    start_index,         \* start_index of the current run
    checkpoint_data,     \* checkpoint_data as the run loaded it ({} without resume)
    exit,                \* how the current run ended
    runs,                \* processes started so far
    ret,                 \* the last return value of reboot_ap_with_retry
    outcome,             \* history: the latest recorded outcome of every task
    handled,             \* history: times each task was handled in this run
    prev,                \* history: the previous run of the chain
    lastSave,            \* history: the last call of save_checkpoint in this run
    sigAt,               \* history: where the first signal found the process
    callLog,             \* history: results of the calls of the current retry sequence
    waits,               \* history: backoff waits of the current retry sequence
    calls,               \* history: calls of AccessPoints.reboot in this run
    slept,               \* history: seconds of pacing delay slept since the last invocation ended
    sleepsAfterSig,      \* history: 1-second sleeps begun after the first signal
    pageFail,            \* history: the listing request that failed (or NumPages)
    io,                  \* history: listing requests and checkpoint file operations of this run
    remote,              \* the inventory behind the listing endpoint of get_all_aps
    page,                \* get_all_aps: the page to request next
    all_aps,             \* get_all_aps: the records collected so far
    total_pages,         \* get_all_aps: total_pages (None until a total is reported)
    requests             \* history: the pages get_all_aps requested, in order

listVars == <<remote, page, all_aps, total_pages, requests>>

vars == <<tasks, opts, env, pc, i, attempt, tick, shutdown_requested, stats,
          all_aps_cache, ckpt, resume, start_index, checkpoint_data, exit, runs, ret, outcome,
          handled, prev, lastSave, sigAt, callLog, waits, calls,
          sleepsAfterSig, slept, pageFail, io, remote, page, all_aps, total_pages,
          requests>>

(* --------------------------------------------------------- status strings *)
(* A status string is a sequence of tokens: "2_Operational" is             *)
(* <<"2_", "Operational">>.                                                *)
St_Operational == <<"2_", "Operational">>
St_Offline == <<"3_", "Offline">>
St_Applying == <<"2_", "ApplyingFirmware">>
St_Plain == <<"Operational">>
St_Empty == << >>

\* 'Operational' in s
Contains(s, tok) == \E k \in 1..Len(s) : s[k] = tok

\* s.startswith(tok)
StartsWith(s, tok) == Len(s) >= 1 /\ s[1] = tok

IsOperationalNoPrefix(s) == Contains(s, "Operational")

\* is_operational = 'Operational' in current_status or current_status.startswith('2_')
IsOperational(s) == Contains(s, "Operational") \/ StartsWith(s, "2_")

(* ------------------------------------------------------- the remote side *)
(* The listing endpoint serves RemotePages; AP "D" is in no page.          *)
RemotePages ==
    << ("A" :> [serialNumber |-> "A", status |-> St_Operational]),
       ("B" :> [serialNumber |-> "B", status |-> St_Offline]) >>

\* The results the reboot endpoint can give to the call with attempt index att
\* for one AP: "F" always fails, "R" fails twice and then succeeds, "N" may do
\* either on every call, every other AP succeeds.
CallResults(sn, att) ==
    CASE sn = "F" -> {FALSE}
      [] sn = "R" -> {att >= 2}
      [] sn = "N" -> BOOLEAN
      [] OTHER -> {TRUE}

NumPages == Len(RemotePages)

EmptyCache == [sn \in {} |-> [serialNumber |-> sn, status |-> St_Empty]]

Min(a, b) == IF a < b THEN a ELSE b

RECURSIVE CacheOfPages(_)
\* the cache after the first n pages were fetched: later pages overwrite
CacheOfPages(n) ==
    IF n = 0 THEN EmptyCache ELSE RemotePages[n] @@ CacheOfPages(n - 1)

\* all_aps_cache as the try block leaves it when the request for page failAt
\* raises (failAt = NumPages: no request fails)
BuildCache(simulate, skip_status_check, failAt) ==
    IF simulate \/ skip_status_check THEN EmptyCache
    ELSE LET limit == IF NumPages > 1 THEN Min(NumPages, CachePageCap) ELSE 1
         IN  CacheOfPages(Min(failAt, limit))

\* the calls of ap_module.list the cache build makes
ListRequests(simulate, skip_status_check, failAt) ==
    IF simulate \/ skip_status_check THEN 0
    ELSE LET limit == IF NumPages > 1 THEN Min(NumPages, CachePageCap) ELSE 1
         IN  Min(failAt + 1, limit)

EffectiveStatusCsvOnly(ap, simulate, skip_status_check, cache) == ap.status

\* current_status of one row
EffectiveStatus(ap, simulate, skip_status_check, cache) ==
    IF ~simulate /\ ~skip_status_check /\ DOMAIN cache # {}
       /\ ap.serial_number \in DOMAIN cache
    THEN LET cached_ap == cache[ap.serial_number]
         IN  IF "status" \in DOMAIN cached_ap THEN cached_ap.status ELSE ap.status
    ELSE ap.status

(* ------------------------------------------------------ the checkpoint file *)
NoFile == [state |-> "none", data |-> << >>]
CorruptFile == [state |-> "corrupt", data |-> << >>]
ValidFile(data) == [state |-> "valid", data |-> data]

EmptyDict == [keys |-> {}, data |-> << >>]

\* the three ways save_checkpoint can end: written, open() raised (the file is
\* as it was), the write raised after open() truncated the file
SaveOutcomes == {"ok", "open_failed", "partial"}

\* the outcomes the remaining fault budget allows
SaveHow == IF env.save_faults > 0 THEN SaveOutcomes ELSE {"ok"}

SpendFault(how) ==
    IF how = "ok" THEN env ELSE [env EXCEPT !.save_faults = @ - 1]

load_checkpoint_index_one(file) ==
    IF file.state = "valid"
    THEN [keys |-> {"last_processed_index", "success", "failed", "failed_aps"},
          data |-> file.data]
    ELSE [keys |-> {"last_processed_index"}, data |-> [last_processed_index |-> 1]]

load_checkpoint(file) ==
    IF file.state = "valid"
    THEN [keys |-> {"last_processed_index", "success", "failed", "failed_aps"},
          data |-> file.data]
    ELSE EmptyDict

save_checkpoint(file, data, how) ==
    CASE how = "ok" -> ValidFile(data)
      [] how = "open_failed" -> file
      [] OTHER -> CorruptFile

\* dict.get(key, default)
Get(d, key, default) == IF key \in d.keys THEN d.data[key] ELSE default

CheckpointDataOneAhead(idx, st) ==
    [last_processed_index |-> idx + 1, success |-> st.success,
     failed |-> st.failed, failed_aps |-> st.failed_aps]

CheckpointDataLastHandled(idx, st) ==
    [last_processed_index |-> idx - 1, success |-> st.success,
     failed |-> st.failed, failed_aps |-> st.failed_aps]

CheckpointData(idx, st) ==
    [last_processed_index |-> idx, success |-> st.success,
     failed |-> st.failed, failed_aps |-> st.failed_aps]

(* ----------------------------------------------------------------- retry *)
NoError == [serial_number |-> "", attempt |-> -1]

\* str(e) of the exception the call with this attempt index raised
ErrMsg(sn, att) == [serial_number |-> sn, attempt |-> att]

wait_time_doubling_from_two(att) == 2 * (att + 1)

\* wait_time = 2 ** attempt
wait_time(att) == 2 ^ att

reboot_ap_with_retry_first_error(sn, att, ok) ==
    IF ok THEN [kind |-> "return", success |-> TRUE, error |-> NoError, wait |-> 0]
    ELSE IF att < max_retries - 1
         THEN [kind |-> "sleep", success |-> FALSE, error |-> ErrMsg(sn, att),
               wait |-> 2 ^ att]
         ELSE [kind |-> "return", success |-> FALSE, error |-> ErrMsg(sn, 0),
               wait |-> 0]

\* one iteration of the loop of reboot_ap_with_retry: the call returned (ok)
\* or raised
reboot_ap_with_retry(sn, att, ok) ==
    IF ok THEN [kind |-> "return", success |-> TRUE, error |-> NoError, wait |-> 0]
    ELSE IF att < max_retries - 1
         THEN [kind |-> "sleep", success |-> FALSE, error |-> ErrMsg(sn, att),
               wait |-> wait_time(att)]
         ELSE [kind |-> "return", success |-> FALSE, error |-> ErrMsg(sn, att),
               wait |-> 0]

NoRet == [kind |-> "none", success |-> FALSE, error |-> NoError, task |-> -1]

(* ----------------------------------------------------------------- stats *)
StartIndexIgnoringCheckpoint(cd) == 0

\* start_index = checkpoint_data.get('last_processed_index', 0)
StartIndex(cd) == Get(cd, "last_processed_index", 0)

NewStatsUnseededList(total, cd) ==
    [total |-> total,
     processed |-> StartIndex(cd),
     success |-> Get(cd, "success", 0),
     failed |-> Get(cd, "failed", 0),
     failed_aps |-> << >>,
     skipped |-> 0, skipped_aps |-> << >>, success_aps |-> << >>]

NewStats(total, cd) ==
    [total |-> total,
     processed |-> StartIndex(cd),
     success |-> Get(cd, "success", 0),
     failed |-> Get(cd, "failed", 0),
     failed_aps |-> Get(cd, "failed_aps", << >>),
     skipped |-> 0, skipped_aps |-> << >>, success_aps |-> << >>]

RecordSkippedListOnly(st, ap, status) ==
    [st EXCEPT !.skipped_aps = Append(@, [serial_number |-> ap.serial_number,
                                          status |-> status])]

RecordSkipped(st, ap, status) ==
    [st EXCEPT !.skipped = @ + 1,
               !.skipped_aps = Append(@, [serial_number |-> ap.serial_number,
                                          status |-> status])]

RecordSuccess(st, ap) ==
    [st EXCEPT !.success = @ + 1,
               !.success_aps = Append(@, ap.serial_number)]

RecordFailedCountOnly(st, ap, error_msg) ==
    [st EXCEPT !.failed = @ + 1]

RecordFailed(st, ap, error_msg) ==
    [st EXCEPT !.failed = @ + 1,
               !.failed_aps = Append(@, [serial_number |-> ap.serial_number,
                                         error |-> error_msg])]

NoSave == [kind |-> "none", how |-> "none", data |-> CheckpointData(-1, NewStats(0, EmptyDict))]
NoSignal == [pc |-> "none", i |-> -1]
NoPrev == [exit |-> "none", start_index |-> 0, handled |-> << >>,
           lastSave |-> NoSave, resume |-> FALSE]

(* ------------------------------------------------------------------ Init *)
Task(idx) == tasks[idx + 1]

ZeroCount(n) == [k \in 1..n |-> 0]
NoOutcome(n) == [k \in 1..n |-> "none"]

SeqsUpTo(S, n) == UNION {[1..m -> S] : m \in 0..n}

\* rows of the CSV of the chain runs
ChainRows ==
    {[serial_number |-> "A", status |-> St_Operational],
     [serial_number |-> "F", status |-> St_Operational],
     [serial_number |-> "D", status |-> St_Offline]}

\* rows of the CSV of the status-gate runs
GateRows ==
    [serial_number : {"A", "B"}, status : {St_Operational, St_Offline}]
    \cup [serial_number : {"N", "R"}, status : {St_Operational}]
    \cup [serial_number : {"D"},
          status : {St_Operational, St_Offline, St_Applying, St_Plain, St_Empty}]

NoIO == [list |-> 0, load |-> 0, save |-> 0, remove |-> 0]

\* total_pages = None
None == -1

NoRemote == [records |-> 0, endless |-> FALSE, fail_pages |-> {}, total_elements |-> 0]

\* the state before main does anything; files: what the checkpoint file of
\* this CSV may hold from earlier
InitCommon(taskLists, optsSet, envSet, files) ==
    /\ tasks \in taskLists
    /\ opts \in optsSet
    /\ env \in envSet
    /\ ckpt \in files
    /\ i = 0
    /\ attempt = 0
    /\ tick = 0
    /\ shutdown_requested = FALSE
    /\ stats = NewStats(0, EmptyDict)
    /\ all_aps_cache = EmptyCache
    /\ resume = FALSE
    /\ start_index = 0
    /\ checkpoint_data = EmptyDict
    /\ exit = "none"
    /\ runs = 0
    /\ ret = NoRet
    /\ outcome = NoOutcome(Len(tasks))
    /\ handled = ZeroCount(Len(tasks))
    /\ prev = NoPrev
    /\ lastSave = NoSave
    /\ sigAt = NoSignal
    /\ callLog = << >>
    /\ waits = << >>
    /\ calls = 0
    /\ sleepsAfterSig = 0
    /\ slept = 0
    /\ pageFail = NumPages
    /\ io = NoIO
    /\ page = 0
    /\ all_aps = << >>
    /\ total_pages = None
    /\ requests = << >>

InitWith(taskLists, optsSet, envSet) ==
    /\ InitCommon(taskLists, optsSet, envSet, {NoFile})
    /\ pc = "idle"
    /\ remote = NoRemote

Init ==
    InitWith(SeqsUpTo(ChainRows, MaxTasks),
             [simulate : BOOLEAN, skip_status_check : {TRUE}, force : {FALSE},
              batch_size : 1..MaxBatch, delay : {0, MaxDelay}],
             [save_faults : 0..MaxSaveFaults, page_fail : {{NumPages}},
              max_runs : {MaxRuns}, first_resume : {{FALSE}},
              csv_missing : {FALSE}])

\* single runs in every mode, over rows whose CSV status and live status
\* differ in every way, with the listing failing at any page or not at all
InitGate ==
    InitWith(SeqsUpTo(GateRows, MaxGateTasks),
             [simulate : BOOLEAN, skip_status_check : BOOLEAN, force : {FALSE},
              batch_size : {1}, delay : {0, MaxDelay}],
             [save_faults : {0}, page_fail : {0..NumPages},
              max_runs : {1}, first_resume : {{FALSE}},
              csv_missing : {FALSE}])

(* ------------------------------------------------- the end of one run *)
\* lines 799-802 and the return: the checkpoint is removed when
\* stats['processed'] == total_aps and the file exists
CleanUp(st, file) ==
    IF st.processed = st.total /\ file.state # "none" THEN NoFile ELSE file

Finish(st, file, how, ops) ==
    /\ ckpt' = CleanUp(st, file)
    /\ io' = IF CleanUp(st, file) # file THEN [ops EXCEPT !.remove = @ + 1] ELSE ops
    /\ stats' = st
    /\ pc' = "done"
    /\ exit' = how

\* what main prints after import_and_reboot returned
MainMessage ==
    IF exit \notin {"completed", "cancelled", "empty", "refused"} THEN "none"
    ELSE IF exit # "refused" /\ ~shutdown_requested THEN "completed"
    ELSE IF shutdown_requested THEN "interrupted"
    ELSE "none"

\* the exit status of the process: sys.exit(1) in signal_handler and in the
\* except clauses of main, 0 when main returns
ExitStatus ==
    CASE exit = "killed" -> 1
      [] exit = "fatal" -> 1
      [] OTHER -> 0

(* ------------------------------------------------------------ StartRun *)
CheckpointAtStartAlwaysLoaded(r, file) == load_checkpoint(file)

\* lines 622-626: checkpoint_data = {} unless resume
CheckpointAtStart(r, file) == IF r THEN load_checkpoint(file) ELSE EmptyDict

RefusedAboveConfirmLimitOnly(total, force, simulate, yes) ==
    total > ConfirmLimit /\ ~simulate /\ ~yes

\* lines 609-618: the two safety checks that return None
Refused(total, force, simulate, yes) ==
    \/ total > LargeBatchLimit /\ ~force
    \/ total > ConfirmLimit /\ ~simulate /\ ~yes

\* a new process: main, and import_and_reboot down to the batch loop
StartRun ==
    /\ pc \in {"idle", "done", "killed"}
    /\ runs < env.max_runs
    /\ \E r \in (IF runs = 0 THEN env.first_resume ELSE {TRUE}),
          failAt \in env.page_fail, yes \in BOOLEAN :
         LET total == Len(tasks)
             cd == CheckpointAtStart(r, ckpt)
             si == StartIndex(cd)
             refused == Refused(total, opts.force, opts.simulate, yes)
             early == env.csv_missing \/ total = 0 \/ refused
         IN  /\ runs' = runs + 1
             /\ resume' = r
             /\ shutdown_requested' = FALSE
             /\ prev' = [exit |-> exit, start_index |-> start_index,
                         handled |-> handled, lastSave |-> lastSave,
                         resume |-> resume]
             /\ handled' = ZeroCount(total)
             /\ outcome' = IF r THEN outcome ELSE NoOutcome(total)
             /\ lastSave' = NoSave
             /\ sigAt' = NoSignal
             /\ callLog' = << >>
             /\ waits' = << >>
             /\ calls' = 0
             /\ sleepsAfterSig' = 0
             /\ slept' = 0
             /\ ret' = NoRet
             /\ attempt' = 0
             /\ tick' = 0
             /\ IF early
                THEN /\ stats' = NewStats(total, EmptyDict)
                     /\ start_index' = 0
                     /\ checkpoint_data' = EmptyDict
                     /\ i' = 0
                     /\ all_aps_cache' = EmptyCache
                     /\ pageFail' = NumPages
                     /\ io' = NoIO
                     /\ pc' = "done"
                     /\ exit' = IF env.csv_missing THEN "fatal"
                                ELSE IF total = 0 THEN "empty" ELSE "refused"
                ELSE /\ stats' = NewStats(total, cd)
                     /\ start_index' = si
                     /\ checkpoint_data' = cd
                     /\ i' = si
                     /\ all_aps_cache' =
                            BuildCache(opts.simulate, opts.skip_status_check, failAt)
                     /\ pageFail' = IF opts.simulate \/ opts.skip_status_check
                                    THEN NumPages ELSE failAt
                     /\ io' = [NoIO EXCEPT
                                 !.load = IF r THEN 1 ELSE 0,
                                 !.list = ListRequests(opts.simulate,
                                              opts.skip_status_check, failAt)]
                     /\ pc' = "top"
                     /\ exit' = "none"
             /\ UNCHANGED <<tasks, opts, env, ckpt>>
             /\ UNCHANGED listVars

(* ------------------------------------------------------- the batch loop *)
InvokesActionAlways(simulate) == TRUE

\* line 746: the else branch of "if simulate" calls reboot_ap_with_retry
InvokesAction(simulate) == ~simulate

\* lines 782-797: processed += 1, the periodic checkpoint, the pacing delay
PeriodicDue(idx, batch_size) == (idx + 1) % batch_size = 0

AfterTaskSaveRaises(st, oc) ==
    LET st2 == [st EXCEPT !.processed = @ + 1]
        data == CheckpointData(i + 1, st2)
    IN  /\ stats' = st2
        /\ outcome' = [outcome EXCEPT ![i + 1] = oc]
        /\ handled' = [handled EXCEPT ![i + 1] = @ + 1]
        /\ IF PeriodicDue(i, opts.batch_size)
           THEN \E how \in SaveHow :
                  /\ ckpt' = save_checkpoint(ckpt, data, how)
                  /\ env' = SpendFault(how)
                  /\ lastSave' = [kind |-> "periodic", how |-> how, data |-> data]
                  /\ io' = [io EXCEPT !.save = @ + 1]
                  /\ IF how # "ok"
                     THEN pc' = "done" /\ tick' = 0 /\ i' = i
                     ELSE IF i < st.total - 1 /\ opts.delay > 0
                     THEN pc' = "delay" /\ tick' = 1 /\ i' = i
                     ELSE pc' = "top" /\ tick' = 0 /\ i' = i + 1
           ELSE /\ UNCHANGED <<ckpt, lastSave, env, io>>
                /\ IF i < st.total - 1 /\ opts.delay > 0
                   THEN pc' = "delay" /\ tick' = 1 /\ i' = i
                   ELSE pc' = "top" /\ tick' = 0 /\ i' = i + 1

AfterTask(st, oc) ==
    LET st2 == [st EXCEPT !.processed = @ + 1]
        data == CheckpointData(i + 1, st2)
    IN  /\ stats' = st2
        /\ outcome' = [outcome EXCEPT ![i + 1] = oc]
        /\ handled' = [handled EXCEPT ![i + 1] = @ + 1]
        /\ IF PeriodicDue(i, opts.batch_size)
           THEN \E how \in SaveHow :
                  /\ ckpt' = save_checkpoint(ckpt, data, how)
                  /\ env' = SpendFault(how)
                  /\ lastSave' = [kind |-> "periodic", how |-> how, data |-> data]
                  /\ io' = [io EXCEPT !.save = @ + 1]
           ELSE UNCHANGED <<ckpt, lastSave, env, io>>
        /\ IF i < st.total - 1 /\ opts.delay > 0
           THEN pc' = "delay" /\ tick' = 1 /\ i' = i
           ELSE pc' = "top" /\ tick' = 0 /\ i' = i + 1

\* the head of the for loop, the shutdown check, the status gate, simulate
LoopTop ==
    /\ pc = "top"
    /\ UNCHANGED <<tasks, opts, shutdown_requested, all_aps_cache, resume,
                   start_index, checkpoint_data, runs, prev, sigAt, calls, sleepsAfterSig, slept, pageFail>>
    /\ UNCHANGED listVars
    /\ IF i >= Len(tasks)
       THEN /\ Finish(stats, ckpt, "completed", io)
            /\ UNCHANGED <<i, attempt, tick, ret, outcome, handled, lastSave,
                           callLog, waits, env>>
       ELSE IF shutdown_requested
       THEN \E how \in SaveHow :
              LET data == CheckpointData(i, stats)
              IN  /\ Finish(stats, save_checkpoint(ckpt, data, how), "cancelled",
                             [io EXCEPT !.save = @ + 1])
                  /\ env' = SpendFault(how)
                  /\ lastSave' = [kind |-> "cancel", how |-> how, data |-> data]
                  /\ UNCHANGED <<i, attempt, tick, ret, outcome, handled,
                                 callLog, waits>>
       ELSE LET ap == Task(i)
                current_status == EffectiveStatus(ap, opts.simulate,
                                      opts.skip_status_check, all_aps_cache)
            IN  IF ~IsOperational(current_status)
                THEN /\ stats' = RecordSkipped(stats, ap, current_status)
                     /\ outcome' = [outcome EXCEPT ![i + 1] = "skipped"]
                     /\ handled' = [handled EXCEPT ![i + 1] = @ + 1]
                     /\ i' = i + 1
                     /\ UNCHANGED <<pc, attempt, tick, ret, ckpt, exit, lastSave,
                                    callLog, waits, env, io>>
                ELSE IF ~InvokesAction(opts.simulate)
                THEN /\ AfterTask(RecordSuccess(stats, ap), "success")
                     /\ UNCHANGED <<attempt, ret, exit, callLog, waits>>
                ELSE /\ pc' = "call"
                     /\ attempt' = 0
                     /\ callLog' = << >>
                     /\ waits' = << >>
                     /\ ret' = NoRet
                     /\ UNCHANGED <<i, tick, stats, ckpt, exit, outcome, handled,
                                    lastSave, env, io>>

\* one call of ap_module.reboot inside reboot_ap_with_retry, and, when the
\* function returns, lines 761-797 of the loop body
Call ==
    /\ pc = "call"
    /\ UNCHANGED <<tasks, opts, shutdown_requested, all_aps_cache, resume,
                   start_index, checkpoint_data, runs, prev, sigAt, sleepsAfterSig, pageFail, exit>>
    /\ UNCHANGED listVars
    /\ \E ok \in CallResults(Task(i).serial_number, attempt) :
         LET ap == Task(i)
             r == reboot_ap_with_retry(ap.serial_number, attempt, ok)
         IN  /\ callLog' = Append(callLog, ok)
             /\ calls' = calls + 1
             /\ IF r.kind = "sleep"
                THEN /\ pc' = "backoff"
                     /\ waits' = Append(waits, r.wait)
                     /\ UNCHANGED slept
                     /\ UNCHANGED <<i, attempt, tick, stats, ckpt, ret, outcome,
                                    handled, lastSave, env, io>>
                ELSE /\ ret' = [kind |-> r.kind, success |-> r.success,
                                 error |-> r.error, task |-> i]
                     /\ UNCHANGED <<attempt, waits>>
                     /\ slept' = 0
                     /\ IF r.success
                        THEN AfterTask(RecordSuccess(stats, ap), "success")
                        ELSE AfterTask(RecordFailed(stats, ap, r.error), "failed")

\* time.sleep(wait_time) is over: the next attempt
BackoffAbandonsOnSignal ==
    /\ pc = "backoff"
    /\ IF shutdown_requested
       THEN pc' = "top" /\ i' = i + 1 /\ UNCHANGED attempt
       ELSE pc' = "call" /\ attempt' = attempt + 1 /\ UNCHANGED i
    /\ UNCHANGED <<tasks, opts, env, tick, shutdown_requested, stats, all_aps_cache,
                   ckpt, resume, start_index, checkpoint_data, exit, runs, ret,
                   outcome, handled, prev, lastSave, sigAt, callLog, waits, calls,
                   sleepsAfterSig, slept, pageFail, io>>
    /\ UNCHANGED listVars

Backoff ==
    /\ pc = "backoff"
    /\ pc' = "call"
    /\ attempt' = attempt + 1
    /\ UNCHANGED <<tasks, opts, env, i, tick, shutdown_requested, stats, all_aps_cache,
                   ckpt, resume, start_index, checkpoint_data, exit, runs, ret, outcome, handled,
                   prev, lastSave, sigAt, callLog, waits, calls, sleepsAfterSig, slept,
                   pageFail, io>>
    /\ UNCHANGED listVars

(* ------------------------------------------------- countdown_with_dots *)
CountdownInterruptedNever(flag) == FALSE

CountdownInterruptedAlways(flag) == TRUE

\* the check at the head of one iteration of countdown_with_dots
CountdownInterrupted(flag) == flag

DelayCheck ==
    /\ pc = "delay"
    /\ IF CountdownInterrupted(shutdown_requested)
       THEN pc' = "top" /\ i' = i + 1 /\ tick' = 0
            /\ UNCHANGED sleepsAfterSig
       ELSE pc' = "sleep" /\ UNCHANGED <<i, tick>>
            /\ sleepsAfterSig' = IF shutdown_requested THEN sleepsAfterSig + 1
                                 ELSE sleepsAfterSig
    /\ UNCHANGED <<tasks, opts, env, attempt, shutdown_requested, stats, all_aps_cache,
                   ckpt, resume, start_index, checkpoint_data, exit, runs, ret, outcome, handled,
                   prev, lastSave, sigAt, callLog, waits, calls, pageFail, io,
                   slept>>
    /\ UNCHANGED listVars

SleepRepeatsTask ==
    /\ pc = "sleep"
    /\ slept' = slept + 1
    /\ IF tick < opts.delay
       THEN pc' = "delay" /\ tick' = tick + 1 /\ i' = i
       ELSE pc' = "top" /\ tick' = 0 /\ i' = i
    /\ UNCHANGED <<tasks, opts, env, attempt, shutdown_requested, stats, all_aps_cache,
                   ckpt, resume, start_index, checkpoint_data, exit, runs, ret, outcome, handled,
                   prev, lastSave, sigAt, callLog, waits, calls, sleepsAfterSig,
                   pageFail, io>>
    /\ UNCHANGED listVars

\* time.sleep(1) is over
Sleep ==
    /\ pc = "sleep"
    /\ slept' = slept + 1
    /\ IF tick < opts.delay
       THEN pc' = "delay" /\ tick' = tick + 1 /\ i' = i
       ELSE pc' = "top" /\ tick' = 0 /\ i' = i + 1
    /\ UNCHANGED <<tasks, opts, env, attempt, shutdown_requested, stats, all_aps_cache,
                   ckpt, resume, start_index, checkpoint_data, exit, runs, ret, outcome, handled,
                   prev, lastSave, sigAt, callLog, waits, calls, sleepsAfterSig,
                   pageFail, io>>
    /\ UNCHANGED listVars

(* ------------------------------------------------------- signal_handler *)
Running == pc \in {"top", "call", "backoff", "delay", "sleep", "list"}

SignalTogglesFlag ==
    /\ Running
    /\ IF shutdown_requested
       THEN shutdown_requested' = FALSE
            /\ UNCHANGED <<pc, exit, sigAt>>
       ELSE shutdown_requested' = TRUE /\ sigAt' = [pc |-> pc, i |-> i]
            /\ UNCHANGED <<pc, exit>>
    /\ UNCHANGED <<tasks, opts, env, i, attempt, tick, stats, all_aps_cache, ckpt,
                   resume, start_index, checkpoint_data, runs, ret, outcome, handled, prev,
                   lastSave, callLog, waits, calls, sleepsAfterSig, slept, pageFail, io>>
    /\ UNCHANGED listVars

Signal ==
    /\ Running
    /\ IF shutdown_requested
       THEN pc' = "killed" /\ exit' = "killed"
            /\ UNCHANGED <<shutdown_requested, sigAt>>
       ELSE shutdown_requested' = TRUE /\ sigAt' = [pc |-> pc, i |-> i]
            /\ UNCHANGED <<pc, exit>>
    /\ UNCHANGED <<tasks, opts, env, i, attempt, tick, stats, all_aps_cache, ckpt,
                   resume, start_index, checkpoint_data, runs, ret, outcome, handled, prev,
                   lastSave, callLog, waits, calls, sleepsAfterSig, slept, pageFail, io>>
    /\ UNCHANGED listVars

(* ---------------------------------------------------------- get_all_aps *)
Max(a, b) == IF a > b THEN a ELSE b

\* result['data'] of ap_module.list for one page: the records are numbered
\* from 1 in the sort order of the listing
PageData(rem, p) ==
    LET n == IF rem.endless THEN page_size
             ELSE Max(0, Min(page_size, rem.records - p * page_size))
    IN  [k \in 1..n |-> p * page_size + k]

batchVars == <<tasks, opts, env, i, attempt, tick, stats, all_aps_cache, ckpt,
               resume, start_index, checkpoint_data, exit, runs, ret, outcome, handled, prev,
               lastSave, sigAt, callLog, waits, calls, sleepsAfterSig, slept, pageFail,
               io>>

NextPageAfterErrorSamePage(p) == p

\* line 460: the except branch advances the page
NextPageAfterError(p) == p + 1

\* one iteration of the while loop of get_all_aps
get_all_aps ==
    /\ pc = "list"
    /\ Len(requests) < MaxRequests
    /\ UNCHANGED batchVars
    /\ UNCHANGED <<remote, shutdown_requested>>
    /\ IF shutdown_requested
       THEN pc' = "listed" /\ UNCHANGED <<page, all_aps, total_pages, requests>>
       ELSE /\ requests' = Append(requests, page)
            /\ IF page \in remote.fail_pages
               THEN /\ page' = NextPageAfterError(page)
                    /\ pc' = IF NextPageAfterError(page) > SafetyLimit
                             THEN "listed" ELSE "list"
                    /\ UNCHANGED <<all_aps, total_pages>>
               ELSE LET data == PageData(remote, page)
                        total_elements == remote.total_elements
                    IN  /\ all_aps' = all_aps \o data
                        /\ total_pages' =
                               IF total_pages = None /\ total_elements > 0
                               THEN (total_elements + page_size - 1) \div page_size
                               ELSE total_pages
                        /\ IF Len(data) < page_size
                           THEN pc' = "listed" /\ page' = page
                           ELSE pc' = "list" /\ page' = page + 1

\* the inventories and the behaviours of the listing endpoint
Remotes ==
    [records : {0, 1, page_size - 1, page_size, 3 * page_size - 1, 3 * page_size},
     endless : {FALSE}, fail_pages : SUBSET (0..3) \cup {0..MaxRequests},
     total_elements : {0, 3 * page_size - 1}]
    \cup [records : {0}, endless : {TRUE},
          fail_pages : {{}, {1}, 0..MaxRequests}, total_elements : {0, 1}]

\* export: get_all_aps is running
InitList ==
    /\ InitCommon({<< >>},
                  [simulate : {FALSE}, skip_status_check : {FALSE}, force : {FALSE},
                   batch_size : {1}, delay : {0}],
                  [save_faults : {0}, page_fail : {{NumPages}}, max_runs : {0},
                   first_resume : {{FALSE}}, csv_missing : {FALSE}],
                  {NoFile})
    /\ pc = "list"
    /\ remote \in Remotes

NextList ==
    \/ get_all_aps
    \/ Signal

SpecList == InitList /\ [][NextList]_vars

Next ==
    \/ StartRun
    \/ LoopTop
    \/ Call
    \/ Backoff
    \/ DelayCheck
    \/ Sleep
    \/ Signal

Spec == Init /\ [][Next]_vars

\* one process that receives no signal
NextGate ==
    \/ StartRun
    \/ LoopTop
    \/ Call
    \/ Backoff
    \/ DelayCheck
    \/ Sleep

SpecGate == InitGate /\ [][NextGate]_vars

\* rows of the CSV of the large runs: the first reboot needs three attempts
LargeRows(n) ==
    [k \in 1..n |-> [serial_number |-> IF k = 1 THEN "R" ELSE "A",
                     status |-> St_Operational]]

\* a checkpoint an earlier run over the same CSV left when it was cancelled
\* after its first task
OldCheckpoint ==
    ValidFile([last_processed_index |-> 1, success |-> 1, failed |-> 0,
               failed_aps |-> << >>])

\* single runs over lists at and just above the large-batch limit, with and
\* without force and resume, with any checkpoint file left from earlier
InitLarge ==
    /\ InitCommon({LargeRows(LargeBatchLimit), LargeRows(LargeBatchLimit + 1)},
                  [simulate : BOOLEAN, skip_status_check : BOOLEAN, force : BOOLEAN,
                   batch_size : {MaxBatch}, delay : {0, 1}],
                  [save_faults : {0}, page_fail : {{NumPages}}, max_runs : {1},
                   first_resume : {BOOLEAN}, csv_missing : BOOLEAN],
                  {NoFile, CorruptFile, OldCheckpoint})
    /\ pc = "idle"
    /\ remote = NoRemote

SpecLarge == InitLarge /\ [][NextGate]_vars

\* single runs, with signals, over lists long enough to hold skipped tasks
\* between two executed ones
InitPace ==
    InitWith(SeqsUpTo(ChainRows, MaxPaceTasks),
             [simulate : {FALSE}, skip_status_check : {TRUE}, force : {FALSE},
              batch_size : {MaxBatch}, delay : {0, MaxDelay}],
             [save_faults : {0}, page_fail : {{NumPages}},
              max_runs : {1}, first_resume : {{FALSE}},
              csv_missing : {FALSE}])

SpecPace == InitPace /\ [][Next]_vars

\* single runs, with and without resume, that find any checkpoint file
InitFile ==
    /\ InitCommon(SeqsUpTo(ChainRows, MaxTasks),
                  [simulate : BOOLEAN, skip_status_check : {TRUE}, force : {FALSE},
                   batch_size : 1..MaxBatch, delay : {0, 1}],
                  [save_faults : {0}, page_fail : {{NumPages}}, max_runs : {1},
                   first_resume : {BOOLEAN}, csv_missing : {FALSE}],
                  {NoFile, CorruptFile, OldCheckpoint})
    /\ pc = "idle"
    /\ remote = NoRemote

SpecFile == InitFile /\ [][Next]_vars

(* ================================================================ claims *)
N == Len(tasks)

\* how many of the first n tasks have the recorded outcome oc
CountOutcome(oc, n) == Cardinality({k \in 1..n : outcome[k] = oc})

RECURSIVE SerialsWith(_, _)
\* the serial numbers of those tasks, in the order of the task list
SerialsWith(oc, n) ==
    IF n = 0 THEN << >>
    ELSE IF outcome[n] = oc
         THEN Append(SerialsWith(oc, n - 1), tasks[n].serial_number)
         ELSE SerialsWith(oc, n - 1)

Serials(entries) == [k \in 1..Len(entries) |-> entries[k].serial_number]

\* the stats one uninterrupted run over the whole list reports when every
\* task has the outcome recorded for it
StatsOfUninterruptedRun(st) ==
    /\ st.success = CountOutcome("success", N)
    /\ st.failed = CountOutcome("failed", N)
    /\ st.skipped = CountOutcome("skipped", N)
    /\ st.success_aps = SerialsWith("success", N)
    /\ Serials(st.skipped_aps) = SerialsWith("skipped", N)
    /\ Serials(st.failed_aps) = SerialsWith("failed", N)

\* a fresh run that reached the end of the list with no signal
UninterruptedRunDone ==
    pc = "done" /\ exit = "completed" /\ runs = 1 /\ ~shutdown_requested

\* the second run of a chain: a fresh run cancelled gracefully, its checkpoint
\* written, then a resumed run
ResumedAfterCancel ==
    /\ runs = 2 /\ resume
    /\ prev.exit = "cancelled" /\ prev.lastSave.how = "ok"
    /\ prev.start_index = 0

(* The reference of C1: an uninterrupted run reports StatsOfUninterruptedRun. *)
UninterruptedRunReportsReference ==
    UninterruptedRunDone => StatsOfUninterruptedRun(stats)

(* C1: a run cancelled gracefully at index k and then resumed to the end of  *)
(* the list returns the same final stats (the three counts and the three     *)
(* outcome lists) as one uninterrupted run over the list with the same       *)
(* per-task outcomes.                                                        *)
C1_ResumedRunReportsSameStats ==
    (ResumedAfterCancel /\ pc = "done" /\ exit = "completed")
        => StatsOfUninterruptedRun(stats)

(* C2 as stated: after a graceful cancellation, the resumed run starts at the *)
(* index the cancelled run checkpointed, and across the two runs every task   *)
(* is handled exactly once and no handled task gets the action again.         *)
HandledOnceAcrossTwoRuns ==
    /\ start_index = prev.lastSave.data.last_processed_index
    /\ \A k \in 1..N : prev.handled[k] + handled[k] <= 1
    /\ (pc \in {"call", "backoff"} => prev.handled[i + 1] = 0)
    /\ (pc = "done" /\ exit = "completed"
            => \A k \in (prev.start_index + 1)..N : prev.handled[k] + handled[k] = 1)

C3_CheckpointGoneExactlyOnCompletion ==
    /\ (pc = "done" /\ exit = "completed" /\ ~shutdown_requested
            => ckpt.state = "none")
    /\ (pc \in {"done", "killed"} /\ exit \in {"cancelled", "killed"}
          /\ lastSave.how = "ok"
            => ckpt.state # "none")

(* C4: when the first signal arrives while task i is in flight, the outcome  *)
(* of task i is recorded, then a checkpoint with last_processed_index = i+1  *)
(* and the current counts and failed list is written, and no later task is   *)
(* started in that run.                                                      *)
C4_InFlightTaskFinishesThenCheckpoint ==
    (pc = "done" /\ sigAt.pc \in {"call", "backoff"})
        => /\ handled[sigAt.i + 1] = 1
           /\ lastSave.kind # "none"
           /\ lastSave.data = [last_processed_index |-> sigAt.i + 1,
                               success |-> stats.success,
                               failed |-> stats.failed,
                               failed_aps |-> stats.failed_aps]
           /\ \A k \in (sigAt.i + 2)..N : handled[k] = 0

(* C5: when the first signal arrives during the pacing delay after task i,   *)
(* no 1-second sleep begins after it, no later task is handled or invoked,   *)
(* and the run ends with a checkpoint write of last_processed_index = i+1    *)
(* whose counts are those of the tasks 0..i.                                 *)
C5_CancelDuringDelay ==
    sigAt.pc \in {"delay", "sleep"}
        => /\ sleepsAfterSig = 0
           /\ pc \notin {"call", "backoff"}
           /\ \A k \in (sigAt.i + 2)..N : handled[k] = 0
           /\ pc = "done"
                => /\ exit = "cancelled"
                   /\ lastSave.kind = "cancel"
                   /\ lastSave.data.last_processed_index = sigAt.i + 1
                   /\ lastSave.data.success = CountOutcome("success", sigAt.i + 1)
                   /\ lastSave.data.failed = CountOutcome("failed", sigAt.i + 1)
                   /\ Serials(lastSave.data.failed_aps)
                          = SerialsWith("failed", sigAt.i + 1)
                   /\ (lastSave.how = "ok" => ckpt = ValidFile(lastSave.data))

C5_Witness ==
    /\ sigAt.pc = "sleep" /\ tick = 0 /\ opts.delay > 1
    /\ pc = "done" /\ exit = "cancelled" /\ lastSave.how = "ok"
    /\ lastSave.data.failed > 0

(* ------------------------------------------------ the status gate *)
\* "operational": contains 'Operational' or starts with '2_'
SaidOperational(s) == Contains(s, "Operational") \/ StartsWith(s, "2_")

EffectiveOf(k) ==
    EffectiveStatus(tasks[k], opts.simulate, opts.skip_status_check, all_aps_cache)

\* the counts and lists of the current run agree with the recorded outcomes
\* (a run that started at index 0)
StatsAgreeWithOutcomes == StatsOfUninterruptedRun(stats)

(* C6: the action is invoked for a task only if its effective status is      *)
(* operational; a task whose effective status is not operational is never    *)
(* invoked and is counted and listed as skipped only.                        *)
C6_StatusGate ==
    pc # "idle"
        => /\ (pc \in {"call", "backoff"} => SaidOperational(EffectiveOf(i + 1)))
           /\ \A k \in 1..N :
                /\ outcome[k] = "skipped" => ~SaidOperational(EffectiveOf(k))
                /\ outcome[k] \in {"success", "failed"}
                        => SaidOperational(EffectiveOf(k))
                /\ (handled[k] > 0 /\ ~SaidOperational(EffectiveOf(k)))
                        => outcome[k] = "skipped"
           /\ StatsAgreeWithOutcomes
           /\ \A e \in 1..Len(stats.skipped_aps) :
                ~SaidOperational(stats.skipped_aps[e].status)

C6_Witness ==
    /\ pc = "done" /\ N = 2 /\ ~opts.simulate
    /\ outcome[1] = "skipped" /\ EffectiveOf(1) = St_Offline
    /\ outcome[2] = "success" /\ EffectiveOf(2) = St_Applying
    /\ stats.skipped = 1 /\ stats.success = 1 /\ stats.failed = 0

\* the effective status as the claim words it
SaidEffective(ap) ==
    IF opts.skip_status_check \/ opts.simulate
       \/ ap.serial_number \notin DOMAIN all_aps_cache
    THEN ap.status
    ELSE all_aps_cache[ap.serial_number].status

(* C7: the effective status is the CSV status when skip_status_check or      *)
(* simulate is set or the serial number is not in the cache, and the cached  *)
(* live status otherwise; the gate skips or executes a task by that status.  *)
C7_EffectiveStatus ==
    pc # "idle"
        => \A k \in 1..N :
             /\ EffectiveOf(k) = SaidEffective(tasks[k])
             /\ handled[k] > 0
                  => (outcome[k] = "skipped" <=> ~SaidOperational(SaidEffective(tasks[k])))

C7_Witness ==
    /\ pc = "done" /\ N = 2
    /\ ~opts.simulate /\ ~opts.skip_status_check
    /\ SaidOperational(tasks[1].status) /\ tasks[1].serial_number \in DOMAIN all_aps_cache
    /\ outcome[1] = "skipped"
    /\ ~SaidOperational(tasks[2].status) /\ tasks[2].serial_number \in DOMAIN all_aps_cache
    /\ outcome[2] = "success"

(* C8: when any page request of the cache build fails, the loop works with  *)
(* an empty cache: the effective status of every task is its own CSV status *)
(* and the gate skips or executes the task by that status.                  *)
C8_CacheEmptyAfterAnyFailure ==
    (pc # "idle" /\ pageFail < NumPages)
        => \A k \in 1..N :
             /\ tasks[k].serial_number \notin DOMAIN all_aps_cache
             /\ EffectiveOf(k) = tasks[k].status
             /\ handled[k] > 0
                  => (outcome[k] = "skipped" <=> ~SaidOperational(tasks[k].status))

(* C9: with simulate set the action is never called, every handled task with *)
(* an operational status is a success and every other one is skipped, and    *)
(* the counts of a completed run equal those of a completed non-simulated    *)
(* run with the same effective statuses in which every action succeeds.      *)
CountOperational == Cardinality({k \in 1..N : SaidOperational(tasks[k].status)})

CountsOfAllSucceeding ==
    /\ stats.success = CountOperational
    /\ stats.skipped = N - CountOperational
    /\ stats.failed = 0

C9_Simulate ==
    /\ opts.simulate
         => /\ calls = 0 /\ pc \notin {"call", "backoff"}
            /\ \A k \in 1..N :
                 handled[k] > 0
                   => outcome[k] = IF SaidOperational(tasks[k].status)
                                   THEN "success" ELSE "skipped"
            /\ (pc = "done" /\ exit = "completed" => CountsOfAllSucceeding)
    /\ (/\ ~opts.simulate /\ pc = "done" /\ exit = "completed"
        /\ \A k \in 1..N : EffectiveOf(k) = tasks[k].status
        /\ \A k \in 1..N : outcome[k] # "failed")
         => CountsOfAllSucceeding

C9_Witness ==
    /\ opts.simulate /\ pc = "done" /\ exit = "completed" /\ N = 2
    /\ stats.success = 1 /\ stats.skipped = 1
    /\ tasks[1].serial_number = "B"

(* C10: reboot_ap_with_retry makes at most 3 calls for one task, stops at    *)
(* the first call that succeeds and returns success, returns failure exactly *)
(* when all 3 calls failed, with the error of the last failed call; fail,    *)
(* fail, succeed is recorded as a success.                                   *)
C10_Retry ==
    /\ Len(callLog) <= 3
    /\ \A k \in 1..(Len(callLog) - 1) : callLog[k] = FALSE
    /\ pc = "call" => Len(callLog) = attempt /\ attempt < 3
    /\ pc = "backoff" => Len(callLog) = attempt + 1 /\ attempt < 2
    /\ ret.kind = "return"
         => /\ Len(callLog) >= 1
            /\ ret.success = callLog[Len(callLog)]
            /\ ~ret.success <=> callLog = <<FALSE, FALSE, FALSE>>
            /\ ~ret.success
                 => ret.error = ErrMsg(Task(ret.task).serial_number, 2)
            /\ outcome[ret.task + 1] = IF ret.success THEN "success" ELSE "failed"
            /\ ~ret.success
                 => stats.failed_aps[Len(stats.failed_aps)]
                      = [serial_number |-> Task(ret.task).serial_number,
                         error |-> ErrMsg(Task(ret.task).serial_number, 2)]

C10_Witness ==
    /\ callLog = <<FALSE, FALSE, TRUE>>
    /\ ret.kind = "return" /\ ret.success
    /\ outcome[ret.task + 1] = "success"
    /\ stats.success = 1

(* C11: the wait after the failed attempt with index k is 2^k seconds; a     *)
(* wait follows every failed attempt but the last one and no successful      *)
(* attempt, so fail, fail, succeed observes the waits 1s and 2s.             *)
C11_Backoff ==
    /\ \A k \in 1..Len(waits) : waits[k] = 2 ^ (k - 1) /\ callLog[k] = FALSE
    /\ pc = "call" => Len(waits) = Len(callLog)
    /\ pc = "backoff" => Len(waits) = Len(callLog) /\ Len(waits) < max_retries
    /\ ret.kind = "return" => Len(waits) = Len(callLog) - 1
    /\ (ret.kind = "return" /\ callLog = <<FALSE, FALSE, TRUE>>) => waits = <<1, 2>>
    /\ (ret.kind = "return" /\ callLog = <<FALSE, FALSE, FALSE>>) => waits = <<1, 2>>
    /\ (ret.kind = "return" /\ callLog = <<TRUE>>) => waits = << >>

C11_Witness ==
    /\ ret.kind = "return" /\ ret.success
    /\ callLog = <<FALSE, FALSE, TRUE>> /\ waits = <<1, 2>>
    /\ pc = "done"

(* C12: get_all_aps stops at the first page with fewer than page_size        *)
(* records: against exactly 3*page_size records it issues exactly 3 page     *)
(* requests and returns 3*page_size records, and against 3*page_size - 1     *)
(* records it issues exactly 3 requests and returns 3*page_size - 1 records. *)
C12_Pagination ==
    (/\ pc = "listed" /\ ~shutdown_requested
     /\ ~remote.endless /\ remote.fail_pages = {}
     /\ remote.records \in {3 * page_size, 3 * page_size - 1})
        => /\ Len(requests) = 3
           /\ all_aps = [k \in 1..remote.records |-> k]

(* C13: whatever the listing endpoint does, get_all_aps issues at most 100   *)
(* page requests (and so terminates).                                        *)
C13_AtMost100Requests ==
    Len(requests) <= SafetyLimit

(* C14: with more than 100 tasks and force not set, import_and_reboot        *)
(* returns no stats and has then invoked the action for no task, made no     *)
(* listing request and neither read, written nor deleted the checkpoint,     *)
(* whatever simulate and resume are.                                         *)
C14_LargeBatchRefused ==
    (pc # "idle" /\ ~env.csv_missing /\ N > LargeBatchLimit /\ ~opts.force)
        => /\ pc = "done" /\ exit = "refused"
           /\ calls = 0
           /\ \A k \in 1..N : handled[k] = 0
           /\ io = NoIO
           /\ lastSave = NoSave

C14_Witness ==
    /\ pc = "done" /\ exit = "refused"
    /\ N = LargeBatchLimit + 1 /\ ~opts.force
    /\ resume /\ ~opts.simulate /\ ~opts.skip_status_check
    /\ ckpt = OldCheckpoint

(* C15: the process ends with a non-zero status exactly when the run was     *)
(* aborted by a fatal condition (missing task source, large-batch refusal    *)
(* without force); task failures, degraded status data and checkpoint        *)
(* failures leave the status zero.                                           *)
C15_NonZeroExactlyOnAbort ==
    pc = "done" => (ExitStatus # 0 <=> exit \in {"fatal", "refused"})

(* C16: a run resumed at index k with seeded counts s and f that reaches the *)
(* end of the list has success + failed + skipped = (total - k) + s + f:     *)
(* every task from k on adds one to exactly one count, no task below k adds  *)
(* anything.                                                                 *)
SeededCounts ==
    Get(checkpoint_data, "success", 0) + Get(checkpoint_data, "failed", 0)

RECURSIVE SumTo(_, _)
SumTo(f, n) == IF n = 0 THEN 0 ELSE f[n] + SumTo(f, n - 1)

C16_CountIdentity ==
    (resume /\ pc \notin {"idle"} /\ exit \notin {"empty", "refused", "fatal"})
        => /\ start_index = Get(checkpoint_data, "last_processed_index", 0)
           /\ \A k \in 1..N : handled[k] <= 1
           /\ \A k \in 1..start_index : handled[k] = 0
           /\ stats.success + stats.failed + stats.skipped
                  = SumTo(handled, N) + SeededCounts
           /\ (pc = "done" /\ exit = "completed")
                 => /\ \A k \in (start_index + 1)..N : handled[k] = 1
                    /\ stats.success + stats.failed + stats.skipped
                           = (stats.total - start_index) + SeededCounts

C16_Witness ==
    /\ resume /\ pc = "done" /\ exit = "completed"
    /\ start_index = 1 /\ N = 2
    /\ Get(checkpoint_data, "failed", 0) = 1
    /\ stats.skipped = 1 /\ stats.failed = 1 /\ stats.success = 0

(* C17: a task whose action fails on all attempts is recorded as failed (the *)
(* failed count grows by one, an entry with its serial number and the error  *)
(* message is appended to the failed list, nothing else is counted) and the  *)
(* loop goes on: a run that is not cancelled ends only after every task from *)
(* its start index on was handled.                                           *)
TaskFailed == pc = "call" /\ ret'.kind = "return" /\ ~ret'.success

C17_FailedTaskRecordedRunContinues ==
    /\ [][TaskFailed
            => /\ stats'.failed = stats.failed + 1
               /\ stats'.failed_aps
                     = Append(stats.failed_aps,
                              [serial_number |-> Task(i).serial_number,
                               error |-> ret'.error])
               /\ stats'.success = stats.success
               /\ stats'.skipped = stats.skipped
               /\ outcome'[i + 1] = "failed"
               /\ pc' \in {"top", "delay"}]_vars
    /\ []((pc = "done" /\ stats.failed > 0) => exit \in {"completed", "cancelled"})
    /\ []((pc = "done" /\ exit \in {"completed", "cancelled"} /\ ~shutdown_requested)
            => /\ exit = "completed"
               /\ \A k \in (start_index + 1)..N : handled[k] = 1)

C17_Witness ==
    /\ pc = "done" /\ exit = "completed" /\ ~shutdown_requested
    /\ N = 2 /\ ~opts.simulate
    /\ outcome = <<"failed", "success">>
    /\ handled = <<1, 1>>
    /\ stats.failed = 1 /\ stats.success = 1

(* C18: within the batch loop a periodic checkpoint is written exactly in    *)
(* the steps in which the count of processed tasks reaches a multiple of     *)
(* batch_size, also when tasks are skipped and in a resumed run.             *)
PeriodicCheckpointWritten ==
    io'.save = io.save + 1 /\ lastSave'.kind = "periodic"

ProcessedReachesMultiple ==
    /\ stats'.processed = stats.processed + 1
    /\ stats'.processed % opts.batch_size = 0

C18_PeriodicCheckpoint ==
    [][(pc \in {"top", "call"} /\ pc' # "done")
          => (PeriodicCheckpointWritten <=> ProcessedReachesMultiple)]_vars

(* C19: load_checkpoint returns an empty checkpoint for a missing or corrupt *)
(* file and the run goes on; a run with resume on an empty checkpoint enters *)
(* the loop as a run without resume does (start index 0, success and failed  *)
(* 0, empty failed list) and makes the same calls and reports the same       *)
(* final stats.                                                              *)
ResumesWithoutValidFile ==
    /\ runs' = runs + 1 /\ resume' /\ ckpt.state \in {"none", "corrupt"}
    /\ N > 0

\* the calls of AccessPoints.reboot a run without resume makes for the whole list
RECURSIVE CallsOfFreshRun(_)
CallsOfFreshRun(n) ==
    IF n = 0 THEN 0
    ELSE CallsOfFreshRun(n - 1)
         + (CASE opts.simulate \/ ~SaidOperational(tasks[n].status) -> 0
              [] tasks[n].serial_number = "F" -> max_retries
              [] OTHER -> 1)

FreshRunDone ==
    /\ StatsOfUninterruptedRun(stats)
    /\ \A k \in 1..N : handled[k] = 1
    /\ calls = CallsOfFreshRun(N)

C19_ResumeOnEmptyCheckpoint ==
    /\ [][ResumesWithoutValidFile
            => /\ pc' = "top" /\ exit' = "none"
               /\ checkpoint_data' = EmptyDict
               /\ start_index' = 0 /\ i' = 0
               /\ stats' = NewStats(N, EmptyDict)
               /\ stats'.success = 0 /\ stats'.failed = 0
               /\ stats'.failed_aps = << >>]_vars
    /\ []((pc = "done" /\ exit = "completed" /\ ~resume) => FreshRunDone)
    /\ []((pc = "done" /\ exit = "completed" /\ resume
            /\ checkpoint_data = EmptyDict) => FreshRunDone)

C19_Witness ==
    /\ pc = "done" /\ exit = "completed" /\ resume
    /\ checkpoint_data = EmptyDict
    /\ prev.lastSave.how = "partial"
    /\ N = 2 /\ calls = max_retries + 1

(* C20: within one process the cancellation flag starts unset, the first     *)
(* signal sets it without ending the process, nothing clears it, and a       *)
(* signal that finds it set ends the process at once, with no checkpoint     *)
(* written from then on.                                                     *)
SameProcess == runs' = runs

C20_CancellationFlag ==
    /\ [][runs' # runs => ~shutdown_requested']_vars
    /\ [][(SameProcess /\ shutdown_requested) => shutdown_requested']_vars
    /\ [][(SameProcess /\ ~shutdown_requested /\ shutdown_requested')
            => /\ pc' = pc /\ exit' = exit /\ Running
               /\ ckpt' = ckpt /\ stats' = stats /\ i' = i]_vars
    /\ [][pc' = "killed" /\ pc # "killed"
            => /\ shutdown_requested /\ exit' = "killed"
               /\ ckpt' = ckpt /\ io' = io /\ lastSave' = lastSave]_vars
    /\ [][(SameProcess /\ pc = "killed")
            => /\ pc' = "killed" /\ ckpt' = ckpt /\ io' = io]_vars
    /\ [](pc = "killed" => ExitStatus = 1)

C20_Witness ==
    /\ pc = "killed" /\ shutdown_requested
    /\ sigAt.pc = "call" /\ sigAt.i = 1
    /\ lastSave.kind = "periodic" /\ ckpt = ValidFile(lastSave.data)
    /\ i = 1

(* C21: a signal that arrives during the retry sequence of a task (during a *)
(* call or a backoff wait) changes neither the attempts nor the waits: the   *)
(* sequence ends as it does without a signal, the outcome is recorded, and   *)
(* the cancellation acts only at the head of the next loop iteration.        *)
RECURSIVE RetryWithoutSignal(_, _)
\* the results of the calls of one retry sequence from attempt index att on
RetryWithoutSignal(sn, att) ==
    LET ok == CHOOSE r \in CallResults(sn, att) : TRUE
    IN  IF ok \/ att = max_retries - 1 THEN <<ok>>
        ELSE <<ok>> \o RetryWithoutSignal(sn, att + 1)

WaitsWithoutSignal(log) == [k \in 1..(Len(log) - 1) |-> 2 ^ (k - 1)]

C21_SignalDuringRetry ==
    /\ ret.kind = "return"
         => /\ callLog = RetryWithoutSignal(Task(ret.task).serial_number, 0)
            /\ waits = WaitsWithoutSignal(callLog)
    /\ (sigAt.pc \in {"call", "backoff"} /\ pc \in {"call", "backoff"})
         => i = sigAt.i /\ handled[i + 1] = 0
    /\ (sigAt.pc \in {"call", "backoff"} /\ pc = "done")
         => /\ ret.kind = "return" /\ ret.task = sigAt.i
            /\ handled[sigAt.i + 1] = 1
            /\ \A k \in (sigAt.i + 2)..N : handled[k] = 0
            /\ exit \in {"completed", "cancelled"}
            /\ exit = "cancelled"
                 => /\ lastSave.kind = "cancel"
                    /\ lastSave.data.last_processed_index = sigAt.i + 1

C21_Witness ==
    /\ sigAt.pc = "backoff" /\ pc = "done" /\ exit = "cancelled"
    /\ ret.task = sigAt.i
    /\ callLog = <<FALSE, FALSE, FALSE>> /\ waits = <<1, 2>>
    /\ outcome[sigAt.i + 1] = "failed"

(* C22: within one run the last_processed_index values of the successive    *)
(* checkpoint writes never decrease, and each lies between the start index   *)
(* of the run and the task count.                                            *)
CheckpointWrite == runs' = runs /\ io'.save = io.save + 1

C22_IndexNeverDecreases ==
    /\ [][CheckpointWrite
            => /\ lastSave'.kind \in {"periodic", "cancel"}
               /\ lastSave.kind # "none"
                    => lastSave'.data.last_processed_index
                          >= lastSave.data.last_processed_index
               /\ lastSave'.data.last_processed_index >= start_index
               /\ lastSave'.data.last_processed_index <= N]_vars
    /\ []((lastSave.kind = "none") <=> (io.save = 0))

C22_Witness ==
    /\ io.save = 2 /\ lastSave.kind = "cancel"
    /\ lastSave.data.last_processed_index = 1
    /\ N = 2 /\ pc = "done"

(* C23 as stated: a failed page request never ends get_all_aps (unless       *)
(* cancellation is requested): the request for page p+1 follows, and the     *)
(* list holds the records of every page fetched successfully before and      *)
(* after the failed one, in page order.                                      *)
LastRequestFailed ==
    Len(requests) > 0 /\ requests[Len(requests)] \in remote.fail_pages

C23_Original ==
    pc \in {"list", "listed"}
        => /\ \A k \in 1..Len(requests) : requests[k] = k - 1
           /\ ~(pc = "listed" /\ ~shutdown_requested /\ LastRequestFailed)

(* C23 as amended: the same, except that get_all_aps stops after the failed  *)
(* request for page 100, the last page its safety limit allows.              *)
RECURSIVE RecordsOfFetchedPages(_, _)
\* the records of the successful ones among requests lo..hi, in request order
RecordsOfFetchedPages(lo, hi) ==
    IF lo > hi THEN << >>
    ELSE IF lo = hi
         THEN IF requests[lo] \in remote.fail_pages THEN << >>
              ELSE PageData(remote, requests[lo])
         ELSE LET mid == (lo + hi) \div 2
              IN  RecordsOfFetchedPages(lo, mid) \o RecordsOfFetchedPages(mid + 1, hi)

C23_FailedPageSkipped ==
    pc \in {"list", "listed"}
        => /\ \A k \in 1..Len(requests) : requests[k] = k - 1
           /\ all_aps = RecordsOfFetchedPages(1, Len(requests))
           /\ (pc = "listed" /\ ~shutdown_requested /\ Len(requests) > 0
                /\ requests[Len(requests)] \in remote.fail_pages)
                 => requests[Len(requests)] = SafetyLimit
           /\ (pc = "list" /\ Len(requests) > 0
                /\ requests[Len(requests)] \in remote.fail_pages)
                 => page = requests[Len(requests)] + 1

C23_Witness ==
    /\ pc = "listed" /\ ~shutdown_requested
    /\ remote.records = 3 * page_size - 1 /\ remote.fail_pages = {1}
    /\ requests = <<0, 1, 2>>
    /\ Len(all_aps) = 2 * page_size - 1
    /\ all_aps[page_size] = page_size /\ all_aps[page_size + 1] = 2 * page_size + 1

(* C24: in one run the action is invoked in strictly increasing task order: *)
(* while the action of task j is being invoked, every task from the start    *)
(* index to j-1 has been handled, exactly once, and neither task j nor any   *)
(* later task has; a task whose retry sequence ended is not invoked again.   *)
Invoking == pc \in {"call", "backoff"}

C24_InvocationOrder ==
    /\ \A k \in 1..N : handled[k] <= 1
    /\ Invoking
         => /\ i >= start_index /\ i < N
            /\ \A k \in 1..N :
                 handled[k] = IF k > start_index /\ k <= i THEN 1 ELSE 0
    /\ (ret.kind = "return" /\ Invoking) => ret.task < i
    /\ (ret.kind = "return" /\ ~Invoking) => handled[ret.task + 1] = 1

C24_Witness ==
    /\ pc = "call" /\ attempt = 0 /\ i = 1 /\ start_index = 0
    /\ handled = <<1, 0>> /\ outcome[1] = "failed"
    /\ calls = max_retries

(* C25: in one run, whenever the action is invoked for a task after an       *)
(* earlier invocation ended, the pacing delay after that invocation ran all  *)
(* its 1-second increments; a delay cut short by cancellation is followed by *)
(* no invocation; skipped tasks in between do not remove the delay.          *)
EarlierInvocation == calls > Len(callLog)

C25_PacingDelay ==
    /\ (Invoking /\ EarlierInvocation) => slept = opts.delay
    /\ (pc = "top" /\ i < N /\ ret.kind = "return" /\ slept < opts.delay)
         => shutdown_requested
    /\ (ret.kind = "return" /\ shutdown_requested /\ slept < opts.delay)
         => ~Invoking
    /\ slept <= opts.delay

C25_Witness ==
    /\ pc = "call" /\ attempt = 0 /\ N = 3 /\ i = 2
    /\ outcome[1] = "failed" /\ outcome[2] = "skipped"
    /\ opts.delay = MaxDelay /\ slept = MaxDelay
    /\ calls = max_retries

(* C26: a failing save_checkpoint does not reach the batch loop: whether the *)
(* checkpoint writes of a run succeed or fail, the run handles the same      *)
(* tasks, makes the same invocations and reports the same counts.            *)
\* the outcome of task k in a run of the chain, which trusts the CSV status
OutcomeWhateverTheSaves(k) ==
    IF ~SaidOperational(tasks[k].status) THEN "skipped"
    ELSE IF opts.simulate THEN "success"
    ELSE IF tasks[k].serial_number = "F" THEN "failed" ELSE "success"

HandledPrefix == Cardinality({k \in 1..N : handled[k] > 0})

\* a run from index 0: what it has handled, invoked and counted so far is
\* fixed by the list, the options and how far it got
RunFromIndexZero ==
    /\ \A k \in 1..N : handled[k] = IF k <= HandledPrefix THEN 1 ELSE 0
    /\ \A k \in 1..HandledPrefix : outcome[k] = OutcomeWhateverTheSaves(k)
    /\ StatsOfUninterruptedRun(stats)
    /\ calls = CallsOfFreshRun(HandledPrefix)
                 + (IF ret.kind = "none" THEN Len(callLog) ELSE 0)
    /\ pc \in {"top", "delay", "sleep"} => HandledPrefix \in {i, i + 1}
    /\ pc = "done" => exit \in {"completed", "cancelled", "empty"}
    /\ (pc = "done" /\ exit = "completed") => FreshRunDone
    /\ (pc = "done" /\ exit = "cancelled") => HandledPrefix = i

C26_SaveFailureSwallowed ==
    (runs = 1 /\ pc # "idle") => RunFromIndexZero

C26_Witness ==
    /\ runs = 1 /\ pc = "done" /\ exit = "completed" /\ N = 2
    /\ lastSave.kind = "periodic" /\ lastSave.how = "partial"
    /\ stats.failed = 1 /\ stats.success = 1 /\ calls = max_retries + 1

(* C27: in a chain of runs that starts with no checkpoint and then always    *)
(* resumes, the persisted last_processed_index is at every moment at most    *)
(* the number of leading tasks whose handling has finished, whatever run is  *)
(* killed where; so a resumed run that completes leaves no task unhandled.   *)
RECURSIVE LeadingHandled(_)
\* the number of leading tasks, among the first n, handled in some run of the chain
LeadingHandled(n) ==
    IF n = 0 THEN 0
    ELSE IF LeadingHandled(n - 1) = n - 1 /\ outcome[n] # "none" THEN n
         ELSE LeadingHandled(n - 1)

C27_NoTaskLost ==
    /\ ckpt.state = "valid" => ckpt.data.last_processed_index <= LeadingHandled(N)
    /\ pc \notin {"idle"} => start_index <= LeadingHandled(N)
    /\ (pc = "done" /\ exit = "completed") => LeadingHandled(N) = N

C27_Witness ==
    /\ runs = 2 /\ resume /\ prev.exit = "killed"
    /\ prev.handled = <<1, 1>> /\ start_index = 1
    /\ handled = <<0, 1>>
    /\ pc = "done" /\ exit = "completed"

(* C28: every checkpoint written in a chain that started with no checkpoint *)
(* and always resumed has success + failed equal to the number of            *)
(* non-skipped tasks below its last_processed_index, and a failed list as    *)
(* long as its failed count.                                                 *)
NonSkippedBelow(n) ==
    Cardinality({k \in 1..n : outcome[k] \in {"success", "failed"}})

CheckpointConsistent(data) ==
    /\ data.last_processed_index \in 0..N
    /\ data.success + data.failed = NonSkippedBelow(data.last_processed_index)
    /\ Len(data.failed_aps) = data.failed

C28_CheckpointInvariant ==
    /\ lastSave.kind # "none" => CheckpointConsistent(lastSave.data)
    /\ ckpt.state = "valid" => CheckpointConsistent(ckpt.data)

C28_Witness ==
    /\ runs = 2 /\ resume /\ start_index = 1
    /\ Get(checkpoint_data, "failed", 0) = 1
    /\ lastSave.kind = "periodic" /\ lastSave.how = "ok"
    /\ lastSave.data.last_processed_index = 2
    /\ lastSave.data.success = 1 /\ lastSave.data.failed = 1

(* C29: whenever main reports that the operation was interrupted and can be *)
(* resumed, a checkpoint file exists whose last_processed_index is the       *)
(* number of tasks already handled, also when the signal arrived while the   *)
(* last task was in flight (checkpoint writes that fail are left aside).     *)
C29_InterruptedImpliesCheckpoint ==
    (pc = "done" /\ MainMessage = "interrupted" /\ lastSave.how \in {"none", "ok"})
        => /\ ckpt.state = "valid"
           /\ ckpt.data.last_processed_index = LeadingHandled(N)

(* C30: without resume the checkpoint file that exists has no influence: the *)
(* run does not load it, starts at index 0 with zero seeded counts, and      *)
(* handles, invokes and counts as the run that finds no checkpoint file.     *)
StartsWithoutResume == runs' = runs + 1 /\ ~resume' /\ N > 0

C30_NoResumeIgnoresCheckpoint ==
    /\ [][StartsWithoutResume
            => /\ ckpt' = ckpt /\ io'.load = 0
               /\ checkpoint_data' = EmptyDict
               /\ start_index' = 0 /\ i' = 0
               /\ stats' = NewStats(N, EmptyDict)
               /\ stats'.success = 0 /\ stats'.failed = 0
               /\ stats'.failed_aps = << >> /\ stats'.processed = 0]_vars
    /\ []((pc # "idle" /\ ~resume) => RunFromIndexZero)

C30_Witness ==
    /\ ~resume /\ runs = 1 /\ pc = "top" /\ i = 1 /\ N = 2
    /\ ckpt = OldCheckpoint /\ io.load = 0 /\ io.save = 0
    /\ start_index = 0 /\ handled = <<1, 0>> /\ outcome[1] = "failed"
    /\ stats.failed = 1 /\ stats.success = 0 /\ stats.processed = 1

====
